---- MODULE Spec2Model ----
(***************************************************************************)
(* SimpleMusicSync (src/main.go, the program of lines 231-553): the        *)
(* incremental reconciliation run of main, the sync record store           *)
(* (syncDB.Load / syncDB.Save), the command template tokenizer             *)
(* (splitCommand, parseCommandTemplate) and the delete-removed pass.       *)
(*                                                                         *)
(* Text is a sequence of runes; a rune is a one-character string.  Paths   *)
(* of the source and target trees are records [stem, ext]: the relative    *)
(* path is stem "." ext, and filepath.Ext of it is "." ext.                *)
(***************************************************************************)
EXTENDS Integers, Sequences, FiniteSets, TLC

VARIABLES
    src,        \* the source tree: path -> [present, size, modTime]
    target,     \* the target tree without the store file: a set of paths
    store,      \* the file .syncdb.json of the target tree
    options,    \* main's options, as the flags of the command line set them
    extraFlags, \* flags of the command line that main does not define
    pc,         \* where main is: "idle", "walk", "delete", "exited"
    oldDB,      \* main's oldDB.Entries
    newDB,      \* main's newDB.Entries
    walkList,   \* what filepath.Walk(sourceDir) still has to report
    delList,    \* what filepath.Walk(targetDir) still has to report
    exitStatus, \* the exit status of the invocation that ended last
    events,     \* this invocation: what was done for each source path
    deleted,    \* this invocation: the target paths os.Remove removed
    removeFailed, \* this invocation: the target paths os.Remove failed on
    run,        \* this invocation's facts about how it started
    runs,       \* invocations started so far
    edits,      \* changes the operator has made between invocations
    tok         \* the tokenizer's input and results (specification SpecTok)

vars == <<src, target, store, options, extraFlags, pc, oldDB, newDB, walkList,
          delList, exitStatus, events, deleted, removeFailed, run, runs, edits, tok>>

engineVars == <<src, target, store, options, extraFlags, pc, oldDB, newDB, walkList,
                delList, exitStatus, events, deleted, removeFailed, run, runs, edits>>

(***************************************************************************)
(* Bounds of the model.                                                    *)
(***************************************************************************)
MaxRuns == 2
MaxEdits == 1
MaxTemplateLen == 3
MaxQuotedLen == 6
MaxRegionLen == 2

(***************************************************************************)
(* Sequences and text.                                                     *)
(***************************************************************************)
RECURSIVE SeqsUpTo(_, _)
SeqsUpTo(S, n) ==
    IF n = 0 THEN {<<>>}
    ELSE LET shorter == SeqsUpTo(S, n - 1)
         IN  shorter \cup {Append(s, x) : s \in {t \in shorter : Len(t) = n - 1}, x \in S}

Range(s) == {s[i] : i \in 1..Len(s)}

HasPrefix(s, p) == Len(s) >= Len(p) /\ SubSeq(s, 1, Len(p)) = p

\* strings.ReplaceAll for a non-empty old: left to right, non-overlapping.
RECURSIVE ReplaceAll(_, _, _)
ReplaceAll(s, old, new) ==
    IF Len(s) < Len(old) THEN s
    ELSE IF HasPrefix(s, old)
         THEN new \o ReplaceAll(SubSeq(s, Len(old) + 1, Len(s)), old, new)
         ELSE <<Head(s)>> \o ReplaceAll(Tail(s), old, new)

\* strings.ToLower that leaves capital letters as they are.
ToLowerKeepsCase(e) == e

\* strings.ToLower on the extensions of the model.
ToLower(e) ==
    CASE e = "JPG" -> "jpg"
      [] e = "MP3" -> "mp3"
      [] OTHER -> e

\* strings.EqualFold on the extensions of the model.
EqualFold(a, b) == ToLower(a) = ToLower(b)

(***************************************************************************)
(* The command template tokenizer.                                         *)
(***************************************************************************)
INPUT == <<"$", "I", "N", "P", "U", "T">>
OUTPUT == <<"$", "O", "U", "T", "P", "U", "T">>

NoQuote == "none"   \* inQuote == 0

unicodeIsSpace(r) == r \in {" ", "\t", "\n", "\r"}

splitInit == [args |-> <<>>, current |-> <<>>, inQuote |-> NoQuote, escape |-> FALSE]

\* splitRune with a closing quote that also ends the token.
splitRuneQuoteEnds(st, r) ==
    IF st.escape
    THEN [st EXCEPT !.current = Append(@, r), !.escape = FALSE]
    ELSE CASE r = "\\" -> [st EXCEPT !.escape = TRUE]
           [] r \in {"'", "\""} ->
                IF st.inQuote = NoQuote THEN [st EXCEPT !.inQuote = r]
                ELSE IF st.inQuote = r
                THEN [st EXCEPT !.inQuote = NoQuote, !.args = Append(@, st.current),
                                !.current = <<>>]
                ELSE [st EXCEPT !.current = Append(@, r)]
           [] r \in {" ", "\t", "\n", "\r"} ->
                IF st.inQuote = NoQuote
                THEN IF Len(st.current) > 0 \/ ~unicodeIsSpace(r)
                     THEN [st EXCEPT !.args = Append(@, st.current), !.current = <<>>]
                     ELSE st
                ELSE [st EXCEPT !.current = Append(@, r)]
           [] OTHER -> [st EXCEPT !.current = Append(@, r)]

\* splitRune with unquoted whitespace that ends a token also when the token is empty.
splitRuneBlankEnds(st, r) ==
    IF st.escape
    THEN [st EXCEPT !.current = Append(@, r), !.escape = FALSE]
    ELSE CASE r = "\\" -> [st EXCEPT !.escape = TRUE]
           [] r \in {"'", "\""} ->
                IF st.inQuote = NoQuote THEN [st EXCEPT !.inQuote = r]
                ELSE IF st.inQuote = r THEN [st EXCEPT !.inQuote = NoQuote]
                ELSE [st EXCEPT !.current = Append(@, r)]
           [] r \in {" ", "\t", "\n", "\r"} ->
                IF st.inQuote = NoQuote
                THEN [st EXCEPT !.args = Append(@, st.current), !.current = <<>>]
                ELSE [st EXCEPT !.current = Append(@, r)]
           [] OTHER -> [st EXCEPT !.current = Append(@, r)]

\* splitRune with the backslash an ordinary rune inside a quoted region.
splitRuneEscapeOutsideOnly(st, r) ==
    IF st.escape
    THEN [st EXCEPT !.current = Append(@, r), !.escape = FALSE]
    ELSE CASE r = "\\" ->
                IF st.inQuote = NoQuote THEN [st EXCEPT !.escape = TRUE]
                ELSE [st EXCEPT !.current = Append(@, r)]
           [] r \in {"'", "\""} ->
                IF st.inQuote = NoQuote THEN [st EXCEPT !.inQuote = r]
                ELSE IF st.inQuote = r THEN [st EXCEPT !.inQuote = NoQuote]
                ELSE [st EXCEPT !.current = Append(@, r)]
           [] r \in {" ", "\t", "\n", "\r"} ->
                IF st.inQuote = NoQuote
                THEN IF Len(st.current) > 0 \/ ~unicodeIsSpace(r)
                     THEN [st EXCEPT !.args = Append(@, st.current), !.current = <<>>]
                     ELSE st
                ELSE [st EXCEPT !.current = Append(@, r)]
           [] OTHER -> [st EXCEPT !.current = Append(@, r)]

\* One iteration of the loop over the runes of cmd.
splitRune(st, r) ==
    IF st.escape
    THEN [st EXCEPT !.current = Append(@, r), !.escape = FALSE]
    ELSE CASE r = "\\" -> [st EXCEPT !.escape = TRUE]
           [] r \in {"'", "\""} ->
                IF st.inQuote = NoQuote THEN [st EXCEPT !.inQuote = r]
                ELSE IF st.inQuote = r THEN [st EXCEPT !.inQuote = NoQuote]
                ELSE [st EXCEPT !.current = Append(@, r)]
           [] r \in {" ", "\t", "\n", "\r"} ->
                IF st.inQuote = NoQuote
                THEN IF Len(st.current) > 0 \/ ~unicodeIsSpace(r)
                     THEN [st EXCEPT !.args = Append(@, st.current), !.current = <<>>]
                     ELSE st
                ELSE [st EXCEPT !.current = Append(@, r)]
           [] OTHER -> [st EXCEPT !.current = Append(@, r)]

RECURSIVE splitLoop(_, _)
splitLoop(st, cmd) ==
    IF cmd = <<>> THEN st ELSE splitLoop(splitRune(st, Head(cmd)), Tail(cmd))

splitCommand(cmd) ==
    LET st == splitLoop(splitInit, cmd)
    IN  IF Len(st.current) > 0 THEN Append(st.args, st.current) ELSE st.args

\* The placeholders replaced in the template before it is split.
parseCommandTemplateSplitLast(template, inputPath, outputPath) ==
    splitCommand(ReplaceAll(ReplaceAll(template, INPUT, inputPath), OUTPUT, outputPath))

parseCommandTemplate(template, inputPath, outputPath) ==
    LET args == splitCommand(template)
    IN  [i \in 1..Len(args) |->
            ReplaceAll(ReplaceAll(args[i], INPUT, inputPath), OUTPUT, outputPath)]

(***************************************************************************)
(* The trees, the flags and the store.                                     *)
(***************************************************************************)
AbsentFile == [present |-> FALSE, size |-> 0, modTime |-> 0]

P(stem, ext) == [stem |-> stem, ext |-> ext]

\* The source paths of the model, in the lexical order filepath.Walk reports them.
SourceOrder == <<P("cover", "JPG"), P("notes", "txt"), P("song", "flac"), P("song", "mp3")>>
SourcePaths == Range(SourceOrder)

StoreFile == P("", "syncdb.json")   \* ".syncdb.json"

\* The target paths of the model, in the lexical order filepath.Walk reports them.
TargetOrder == <<StoreFile, P("cover", "jpeg"), P("song", "opus"), P("stray", "txt")>>
TargetPaths == Range(TargetOrder) \ {StoreFile}

Sizes == {10, 11}
ModTimes == {1, 2}
NewFile == [present |-> TRUE, size |-> 10, modTime |-> 1]

\* Command templates of the model: none, only whitespace, a transcoder call.
NoCommand == <<>>
BlankCommand == <<" ">>
Transcode == <<"f", " ">> \o INPUT \o <<" ">> \o OUTPUT
Templates == {NoCommand, BlankCommand, Transcode}

\* The README's flags --exclude and --include, each with one regular expression,
\* which is given by the source paths it matches.
ExcludePattern == {P("song", "flac"), P("song", "mp3")}
IncludePattern == {P("song", "flac")}

defaultOptions ==
    [targetAudioExtension |-> "opus",
     targetImageExtension |-> "jpeg",
     sourceAudioExtensions |-> <<"mp3", "flac", "opus">>,
     sourceImageExtensions |-> <<"jpg", "jpeg", "png", "gif">>,
     ffmpegAudioCommand |-> NoCommand,
     ffmpegImageCommand |-> NoCommand,
     deleteRemovedFiles |-> FALSE]

isAudioExtension(ext) ==
    \E i \in 1..Len(options.sourceAudioExtensions) :
        EqualFold(ext, options.sourceAudioExtensions[i])

isImageExtension(ext) ==
    \E i \in 1..Len(options.sourceImageExtensions) :
        EqualFold(ext, options.sourceImageExtensions[i])

fileExists(t) == t \in target

\* The absolute paths handed to the command, as text.
sourcePathText(p) == <<"/", "s", "/", p.stem, ".", p.ext>>
targetFileText(t) == <<"/", "t", "/", t.stem, ".", t.ext>>

\* json.MarshalIndent of a syncDB, by the json tags of SyncDBEntry.
jsonEntry(e) ==
    [sourcePath |-> e.SourcePath, targetPath |-> e.TargetPath, size |-> e.Size,
     modTime |-> e.ModTime, command |-> e.Command]

\* json.Unmarshal of one object into a SyncDBEntry.
goEntry(j) ==
    [SourcePath |-> j.sourcePath, TargetPath |-> j.targetPath, Size |-> j.size,
     ModTime |-> j.modTime, Command |-> j.command]

\* Save that marshals a fresh syncDB instead of the receiver.
SaveFresh(entries) == [kind |-> "json", entries |-> <<>>]

\* syncDB.Save: what os.WriteFile leaves at dbPath.
Save(entries) ==
    [kind |-> "json", entries |-> [i \in 1..Len(entries) |-> jsonEntry(entries[i])]]

\* syncDB.Load: the entries of the db after Load on a zero syncDB.  os.ReadFile
\* fails on a missing file and Load returns.  json.Unmarshal, whose error Load
\* drops, stores nothing when the text is not JSON; when the text is JSON and a value
\* has not the type of its field, it skips that field, which keeps its zero value,
\* and decodes everything else.
Load(file) ==
    IF file.kind = "json"
    THEN [i \in 1..Len(file.entries) |-> goEntry(file.entries[i])]
    ELSE IF file.kind = "mistyped"
    THEN [i \in 1..Len(file.entries) |->
            IF i = Len(file.entries)
            THEN [goEntry(file.entries[i]) EXCEPT !.Size = 0]
            ELSE goEntry(file.entries[i])]
    ELSE <<>>

MissingStore == [kind |-> "missing", entries |-> <<>>]
GarbageStore == [kind |-> "garbage", entries |-> <<>>]   \* text that is not JSON

\* The store file as Save wrote it, with the size of its last entry turned into a
\* JSON string: JSON still, which json.Unmarshal cannot decode without error.
MistypedStore(file) == [kind |-> "mistyped", entries |-> file.entries]

(***************************************************************************)
(* The walk callback's values for a source path p.                         *)
(***************************************************************************)
ext(p) == ToLower(p.ext)

isAudio(p) == isAudioExtension(ext(p))
isImage(p) == isImageExtension(ext(p))

targetExt(p) ==
    IF isImage(p) THEN options.targetImageExtension ELSE options.targetAudioExtension

ffmpegCmd(p) ==
    IF isImage(p) THEN options.ffmpegImageCommand ELSE options.ffmpegAudioCommand

\* relTargetPath: TrimSuffix(relPath, Ext(sourcePath)) + "." + targetExt
targetFile(p) == P(p.stem, targetExt(p))

\* The lookup with the entry's TargetPath compared instead of its SourcePath.
entryIndexesByTarget(p) == {i \in 1..Len(oldDB) : oldDB[i].TargetPath = p}

\* The loop over oldDB.Entries: the first entry of the path, if any.
entryIndexes(p) == {i \in 1..Len(oldDB) : oldDB[i].SourcePath = p}
hasExistingEntry(p) == entryIndexes(p) # {}
existingEntry(p) == oldDB[CHOOSE i \in entryIndexes(p) : \A j \in entryIndexes(p) : i <= j]

needsProcessing(p) ==
    \/ ~hasExistingEntry(p)
    \/ existingEntry(p).Size # src[p].size
    \/ existingEntry(p).Command # ffmpegCmd(p)
    \/ existingEntry(p).ModTime # src[p].modTime
    \/ ~fileExists(targetFile(p))

\* The entry with the command left empty.
newEntryNoCommand(p) ==
    [SourcePath |-> p, TargetPath |-> targetFile(p), Size |-> src[p].size,
     ModTime |-> src[p].modTime, Command |-> NoCommand]

newEntry(p) ==
    [SourcePath |-> p, TargetPath |-> targetFile(p), Size |-> src[p].size,
     ModTime |-> src[p].modTime, Command |-> ffmpegCmd(p)]

NoEvents == [p \in SourcePaths |-> "unvisited"]

(***************************************************************************)
(* main, from the command line to the start of the walk (lines 272-315).   *)
(* flag.Parse ends the process with status 2 on a flag main does not       *)
(* define.                                                                 *)
(***************************************************************************)
StartRun ==
    /\ pc \in {"idle", "exited"}
    /\ runs < MaxRuns
    /\ runs' = runs + 1
    /\ run' = [storeBefore |-> store, targetBefore |-> target, targetAtSave |-> {},
               repeat |-> (pc = "exited"), prevExit |-> exitStatus]
    /\ events' = NoEvents
    /\ deleted' = {}
    /\ removeFailed' = {}
    /\ newDB' = <<>>
    /\ delList' = <<>>
    /\ IF extraFlags # {}
       THEN /\ pc' = "exited"
            /\ exitStatus' = 2
            /\ oldDB' = <<>>
            /\ walkList' = <<>>
       ELSE /\ pc' = "walk"
            /\ exitStatus' = exitStatus
            /\ oldDB' = Load(store)
            /\ walkList' = SelectSeq(SourceOrder, LAMBDA p : src[p].present)
    /\ UNCHANGED <<src, target, store, options, extraFlags, edits, tok>>

(***************************************************************************)
(* The callback of filepath.Walk(sourceDir) on one file (lines 317-393).   *)
(* outcome is what the external command or copyFile does: "ok" (exit 0 or  *)
(* nil, the target written), "notarget" (a command exits 0 and writes      *)
(* nothing), "fail" (non-zero exit or an error, nothing written),          *)
(* "partial" (non-zero exit or an error after the target was created).     *)
(* A returned error ends the walk, and main exits with status 1 (lines     *)
(* 395-398).                                                               *)
(***************************************************************************)
\* The callback's last statements (lines 385-392): the entry is appended, nil returned.
recordEntry(p) ==
    /\ newDB' = Append(newDB, newEntry(p))
    /\ walkList' = Tail(walkList)
    /\ UNCHANGED <<pc, exitStatus>>

\* The callback returns nil without an entry (lines 327 and 369).
returnNil ==
    /\ walkList' = Tail(walkList)
    /\ UNCHANGED <<newDB, pc, exitStatus>>

\* The error only printed and the walk going on, as the first main of the file did.
printAndGoOn ==
    /\ walkList' = Tail(walkList)
    /\ UNCHANGED <<newDB, pc, exitStatus>>

\* The callback returns an error: filepath.Walk returns it and main exits (lines 395-398).
exitOnError ==
    /\ pc' = "exited"
    /\ exitStatus' = 1
    /\ UNCHANGED <<newDB, walkList>>

\* What the command or copyFile leaves of the target file.
written(t, outcome) ==
    IF outcome \in {"ok", "partial"} THEN target \cup {t} ELSE target

VisitFile(outcome) ==
    /\ pc = "walk"
    /\ walkList # <<>>
    /\ LET sourcePath == Head(walkList)
           args == parseCommandTemplate(ffmpegCmd(sourcePath),
                       sourcePathText(sourcePath), targetFileText(targetFile(sourcePath)))
       IN  IF ~isAudio(sourcePath) /\ ~isImage(sourcePath)
           THEN /\ events' = [events EXCEPT ![sourcePath] = "ignored"]
                /\ UNCHANGED target
                /\ returnNil
           ELSE IF ~needsProcessing(sourcePath)
           THEN /\ events' = [events EXCEPT ![sourcePath] = "uptodate"]
                /\ UNCHANGED target
                /\ recordEntry(sourcePath)
           ELSE IF ffmpegCmd(sourcePath) # <<>>
           THEN IF Len(args) = 0
                THEN /\ events' = [events EXCEPT ![sourcePath] = "emptyargv"]
                     /\ UNCHANGED target
                     /\ returnNil
                ELSE IF outcome \in {"fail", "partial"}
                THEN /\ events' = [events EXCEPT ![sourcePath] = "commandFailed"]
                     /\ target' = written(targetFile(sourcePath), outcome)
                     /\ exitOnError
                ELSE /\ events' = [events EXCEPT ![sourcePath] = "command"]
                     /\ target' = written(targetFile(sourcePath), outcome)
                     /\ recordEntry(sourcePath)
           ELSE IF outcome \in {"fail", "partial"}
                THEN /\ events' = [events EXCEPT ![sourcePath] = "copyFailed"]
                     /\ target' = written(targetFile(sourcePath), outcome)
                     /\ exitOnError
                ELSE /\ outcome = "ok"
                     /\ events' = [events EXCEPT ![sourcePath] = "copy"]
                     /\ target' = written(targetFile(sourcePath), outcome)
                     /\ recordEntry(sourcePath)
    /\ UNCHANGED <<src, store, options, extraFlags, oldDB, delList, deleted,
                   removeFailed, run, runs, edits, tok>>

\* filepath.Walk hands the callback an error for an entry (line 318): the callback
\* returns it, the walk ends and main exits with status 1.
WalkError ==
    /\ pc = "walk"
    /\ walkList # <<>>
    /\ events' = [events EXCEPT ![Head(walkList)] = "walkError"]
    /\ pc' = "exited"
    /\ exitStatus' = 1
    /\ UNCHANGED <<src, target, store, options, extraFlags, oldDB, newDB, walkList,
                   delList, deleted, removeFailed, run, runs, edits, tok>>

(***************************************************************************)
(* After a walk without error (lines 400-406): newDB.Save, then either the *)
(* walk of the target tree or the end of main.                             *)
(***************************************************************************)
\* The expected set filled with the entries' SourcePath.
expectedBySource == {newDB[i].SourcePath : i \in 1..Len(newDB)}

\* The map expected of the delete-removed pass (lines 403-406).
expected == {newDB[i].TargetPath : i \in 1..Len(newDB)}

\* The walk of the target tree begun with newDB.Save left for later.
PersistAfterDelete ==
    /\ pc = "walk"
    /\ walkList = <<>>
    /\ run' = [run EXCEPT !.targetAtSave = target]
    /\ IF options.deleteRemovedFiles
       THEN /\ pc' = "delete"
            /\ delList' = SelectSeq(TargetOrder, LAMBDA t : t = StoreFile \/ t \in target)
            /\ UNCHANGED <<exitStatus, store>>
       ELSE /\ pc' = "exited"
            /\ exitStatus' = 0
            /\ store' = Save(newDB)
            /\ UNCHANGED delList
    /\ UNCHANGED <<src, target, options, extraFlags, oldDB, newDB, walkList, events,
                   deleted, removeFailed, runs, edits, tok>>

\* Save called from inside the walk, before every file has been visited.
PersistDuringWalk ==
    /\ pc = "walk"
    /\ store' = Save(newDB)
    /\ run' = [run EXCEPT !.targetAtSave = target]
    /\ IF options.deleteRemovedFiles
       THEN /\ pc' = "delete"
            /\ delList' = SelectSeq(TargetOrder, LAMBDA t : t = StoreFile \/ t \in target)
            /\ UNCHANGED exitStatus
       ELSE /\ pc' = "exited"
            /\ exitStatus' = 0
            /\ UNCHANGED delList
    /\ UNCHANGED <<src, target, options, extraFlags, oldDB, newDB, walkList, events,
                   deleted, removeFailed, runs, edits, tok>>

Persist ==
    /\ pc = "walk"
    /\ walkList = <<>>
    /\ store' = Save(newDB)
    /\ run' = [run EXCEPT !.targetAtSave = target]
    /\ IF options.deleteRemovedFiles
       THEN /\ pc' = "delete"
            /\ delList' = SelectSeq(TargetOrder, LAMBDA t : t = StoreFile \/ t \in target)
            /\ UNCHANGED exitStatus
       ELSE /\ pc' = "exited"
            /\ exitStatus' = 0
            /\ UNCHANGED delList
    /\ UNCHANGED <<src, target, options, extraFlags, oldDB, newDB, walkList, events,
                   deleted, removeFailed, runs, edits, tok>>

(***************************************************************************)
(* The callback of filepath.Walk(targetDir) on one file (lines 408-418).   *)
(* The error of os.Remove is the callback's result, and an error ends the  *)
(* walk; main ignores the walk's result and ends with status 0.            *)
(***************************************************************************)
DeleteVisit(removed) ==
    /\ pc = "delete"
    /\ delList # <<>>
    /\ LET path == Head(delList)
       IN  IF path = StoreFile \/ path \in expected
           THEN /\ delList' = Tail(delList)
                /\ UNCHANGED <<target, deleted, removeFailed, pc, exitStatus>>
           ELSE IF removed
           THEN /\ target' = target \ {path}
                /\ deleted' = deleted \cup {path}
                /\ delList' = Tail(delList)
                /\ UNCHANGED <<removeFailed, pc, exitStatus>>
           ELSE /\ removeFailed' = removeFailed \cup {path}
                /\ pc' = "exited"
                /\ exitStatus' = 0
                /\ UNCHANGED <<target, deleted, delList>>
    /\ UNCHANGED <<src, store, options, extraFlags, oldDB, newDB, walkList, events,
                   run, runs, edits, tok>>

\* The walk of the target tree is over: "Sync complete!" (line 421).
Finish ==
    /\ pc = "delete"
    /\ delList = <<>>
    /\ pc' = "exited"
    /\ exitStatus' = 0
    /\ UNCHANGED <<src, target, store, options, extraFlags, oldDB, newDB, walkList,
                   delList, events, deleted, removeFailed, run, runs, edits, tok>>

(***************************************************************************)
(* main installs no signal handler: an interrupt of the operator ends the  *)
(* process where it is.  Between two files of a walk nothing but the       *)
(* process is lost; inside os.WriteFile of Save (line 552) the store file  *)
(* is already truncated and not yet whole.                                 *)
(***************************************************************************)
Interrupt ==
    /\ pc \in {"walk", "delete"}
    /\ pc' = "exited"
    /\ exitStatus' = 130
    /\ UNCHANGED <<src, target, store, options, extraFlags, oldDB, newDB, walkList,
                   delList, events, deleted, removeFailed, run, runs, edits, tok>>

InterruptSave ==
    /\ pc = "walk"
    /\ walkList = <<>>
    /\ store' = GarbageStore
    /\ pc' = "exited"
    /\ exitStatus' = 130
    /\ UNCHANGED <<src, target, options, extraFlags, oldDB, newDB, walkList,
                   delList, events, deleted, removeFailed, run, runs, edits, tok>>

(***************************************************************************)
(* Between invocations the operator changes the trees, the store or the    *)
(* command line.  The process is gone: nothing of its memory is left.      *)
(***************************************************************************)
noRun == [storeBefore |-> MissingStore, targetBefore |-> {}, targetAtSave |-> {},
          repeat |-> FALSE, prevExit |-> 0]

Edit ==
    /\ pc \in {"idle", "exited"}
    /\ edits < MaxEdits
    /\ edits' = edits + 1
    /\ pc' = "idle"
    /\ oldDB' = <<>>
    /\ newDB' = <<>>
    /\ walkList' = <<>>
    /\ delList' = <<>>
    /\ events' = NoEvents
    /\ deleted' = {}
    /\ removeFailed' = {}
    /\ exitStatus' = 0
    /\ run' = noRun
    /\ UNCHANGED <<runs, tok>>

\* A file of the source tree gets another content length.
ResizeSource(p, size) ==
    /\ Edit
    /\ src[p].present
    /\ src[p].size # size
    /\ src' = [src EXCEPT ![p].size = size]
    /\ UNCHANGED <<target, store, options, extraFlags>>

\* A file of the source tree gets another modification time.
TouchSource(p, modTime) ==
    /\ Edit
    /\ src[p].present
    /\ src[p].modTime # modTime
    /\ src' = [src EXCEPT ![p].modTime = modTime]
    /\ UNCHANGED <<target, store, options, extraFlags>>

CreateSource(p) ==
    /\ Edit
    /\ ~src[p].present
    /\ src' = [src EXCEPT ![p] = NewFile]
    /\ UNCHANGED <<target, store, options, extraFlags>>

RemoveSource(p) ==
    /\ Edit
    /\ src[p].present
    /\ src' = [src EXCEPT ![p] = AbsentFile]
    /\ UNCHANGED <<target, store, options, extraFlags>>

RemoveTarget(t) ==
    /\ Edit
    /\ t \in target
    /\ target' = target \ {t}
    /\ UNCHANGED <<src, store, options, extraFlags>>

DamageStore(file) ==
    /\ Edit
    /\ store # file
    /\ store' = file
    /\ UNCHANGED <<src, target, options, extraFlags>>

\* A value of the store file gets another JSON type.
MistypeStore ==
    /\ store.kind = "json"
    /\ Len(store.entries) > 0
    /\ DamageStore(MistypedStore(store))

\* The next command line gives another --ffmpeg-audio.
SetAudioCommand(template) ==
    /\ Edit
    /\ options.ffmpegAudioCommand # template
    /\ options' = [options EXCEPT !.ffmpegAudioCommand = template]
    /\ UNCHANGED <<src, target, store, extraFlags>>

\* The next command line gives another --ffmpeg-image.
SetImageCommand(template) ==
    /\ Edit
    /\ options.ffmpegImageCommand # template
    /\ options' = [options EXCEPT !.ffmpegImageCommand = template]
    /\ UNCHANGED <<src, target, store, extraFlags>>

\* The next command line gives or drops --delete-removed.
SetDeleteRemoved ==
    /\ Edit
    /\ options' = [options EXCEPT !.deleteRemovedFiles = ~@]
    /\ UNCHANGED <<src, target, store, extraFlags>>

\* The next command line gives or drops the README's --exclude and --include.
SetExtraFlags(extra) ==
    /\ Edit
    /\ extraFlags # extra
    /\ extraFlags' = extra
    /\ UNCHANGED <<src, target, store, options>>

ExtraFlagSets == {{}, {"exclude"}, {"exclude", "include"}}

tokIdle == [stage |-> "off"]

Init ==
    /\ \E late \in {P("song", "mp3")}, there \in BOOLEAN :
           src = [p \in SourcePaths |-> IF p = late /\ ~there THEN AbsentFile ELSE NewFile]
    /\ target = {P("stray", "txt")}
    /\ store = MissingStore
    /\ \E audio \in Templates, del \in BOOLEAN :
           options = [defaultOptions EXCEPT !.ffmpegAudioCommand = audio,
                                            !.deleteRemovedFiles = del]
    /\ extraFlags = {}
    /\ pc = "idle"
    /\ oldDB = <<>>
    /\ newDB = <<>>
    /\ walkList = <<>>
    /\ delList = <<>>
    /\ exitStatus = 0
    /\ events = NoEvents
    /\ deleted = {}
    /\ removeFailed = {}
    /\ run = noRun
    /\ runs = 0
    /\ edits = 0
    /\ tok = tokIdle

Next ==
    \/ StartRun
    \/ \E outcome \in {"ok", "notarget", "fail", "partial"} : VisitFile(outcome)
    \/ WalkError
    \/ Persist
    \/ \E removed \in BOOLEAN : DeleteVisit(removed)
    \/ Finish
    \/ Interrupt
    \/ InterruptSave
    \/ \E p \in SourcePaths, size \in Sizes : ResizeSource(p, size)
    \/ \E p \in SourcePaths, modTime \in ModTimes : TouchSource(p, modTime)
    \/ \E p \in SourcePaths : CreateSource(p)
    \/ \E p \in SourcePaths : RemoveSource(p)
    \/ \E t \in TargetPaths : RemoveTarget(t)
    \/ \E file \in {MissingStore, GarbageStore} : DamageStore(file)
    \/ MistypeStore
    \/ \E template \in Templates : SetAudioCommand(template)
    \/ \E template \in {NoCommand, Transcode} : SetImageCommand(template)
    \/ SetDeleteRemoved
    \/ \E extra \in ExtraFlagSets : SetExtraFlags(extra)

Spec == Init /\ [][Next]_vars

(***************************************************************************)
(* The tokenizer on its own: a template and two paths are chosen, then     *)
(* splitCommand and parseCommandTemplate are applied to them.              *)
(***************************************************************************)
RECURSIVE Flatten(_)
Flatten(pieces) ==
    IF pieces = <<>> THEN <<>> ELSE Head(pieces) \o Flatten(Tail(pieces))

\* Templates of quotes, escapes, blanks and one ordinary rune.
QuoteRunes == {"a", " ", "'", "\\"}
QuotedTemplates == SeqsUpTo(QuoteRunes, MaxQuotedLen)

\* Templates of a few pieces: any rune the tokenizer tells apart, or a placeholder.
Pieces == {<<"a">>, <<" ">>, <<"\t">>, <<"\n">>, <<"\r">>, <<"'">>, <<"\"">>, <<"\\">>,
           <<"$">>, INPUT, OUTPUT}
PieceTemplates == {Flatten(ps) : ps \in SeqsUpTo(Pieces, MaxTemplateLen)}

\* Templates of one quoted region, alone or with a word before and after it, glued
\* to it or a blank apart.
RegionQuotes == {"'", "\""}
RegionRunes == {"a", " ", "\t", "'", "\""}
RegionTexts(q) == {w \in SeqsUpTo(RegionRunes, MaxRegionLen) : q \notin Range(w)}
RegionBefore == {<<>>, <<"a">>, <<"a", " ">>}
RegionAfter == {<<>>, <<"a">>, <<" ", "a">>}
Region(before, q, w, after) == before \o <<q>> \o w \o <<q>> \o after
RegionTemplates ==
    UNION {{Region(before, q, w, after) :
                before \in RegionBefore, w \in RegionTexts(q), after \in RegionAfter} :
           q \in RegionQuotes}

\* The templates the specification and the README give.
ExampleABCD == <<"a", " ", "\"", "b", " ", "c", "\"", " ", "d">>           \* a "b c" d
ExampleXY == <<"x", "\\", " ", "y">>                                      \* x\ y
ExampleItS == <<"'", "i", "t", "'", "'", "s", "'">>                        \* 'it''s'
ExampleItEscS == <<"'", "i", "t", "'", "\\", "'", "'", "s", "'">>          \* 'it'\''s'
ExampleTwice ==                                                            \* f $INPUT "$OUTPUT" $INPUT$OUTPUT
    <<"f", " ">> \o INPUT \o <<" ", "\"">> \o OUTPUT \o <<"\"", " ">> \o INPUT \o OUTPUT
ExampleTemplates == {ExampleABCD, ExampleXY, ExampleItS, ExampleItEscS, ExampleTwice, Transcode}

\* Paths as the walk can produce them: plain, with a blank and quotes, and a file
\* whose name holds the text of a placeholder.
InputPaths == {<<"i">>, <<"i", " ", "'">>, <<"/">> \o OUTPUT, <<"/">> \o INPUT}
OutputPaths == {<<"o">>, <<"o", "\\", "\"">>, <<"/">> \o INPUT}

tokInput(template, inputPath, outputPath) ==
    [stage |-> "input", template |-> template, inputPath |-> inputPath,
     outputPath |-> outputPath, args |-> <<>>, argv |-> <<>>]

InitTok ==
    /\ src = [p \in SourcePaths |-> NewFile]
    /\ target = {}
    /\ store = MissingStore
    /\ options = defaultOptions
    /\ extraFlags = {}
    /\ pc = "idle"
    /\ oldDB = <<>>
    /\ newDB = <<>>
    /\ walkList = <<>>
    /\ delList = <<>>
    /\ exitStatus = 0
    /\ events = NoEvents
    /\ deleted = {}
    /\ removeFailed = {}
    /\ run = noRun
    /\ runs = 0
    /\ edits = 0
    /\ \/ \E t \in QuotedTemplates \cup RegionTemplates : tok = tokInput(t, <<"i">>, <<"o">>)
       \/ \E t \in PieceTemplates \cup ExampleTemplates, i \in InputPaths, o \in OutputPaths :
              tok = tokInput(t, i, o)

\* args := splitCommand(template)
Tokenize ==
    /\ tok.stage = "input"
    /\ tok' = [tok EXCEPT !.stage = "split", !.args = splitCommand(tok.template)]
    /\ UNCHANGED engineVars

\* argv := parseCommandTemplate(template, inputPath, outputPath)
Substitute ==
    /\ tok.stage = "split"
    /\ tok' = [tok EXCEPT !.stage = "parsed",
                          !.argv = parseCommandTemplate(tok.template, tok.inputPath,
                                                        tok.outputPath)]
    /\ UNCHANGED engineVars

NextTok == Tokenize \/ Substitute

SpecTok == InitTok /\ [][NextTok]_vars

(***************************************************************************)
(* The claims.                                                             *)
(***************************************************************************)
Processed == {"command", "commandFailed", "copy", "copyFailed"}
Recorded == {"uptodate", "command", "copy"}
Classified(p) == isAudio(p) \/ isImage(p)

\* The step in which the walk callback handles source path p.
Visits(p) ==
    /\ pc = "walk"
    /\ walkList # <<>>
    /\ Head(walkList) = p
    /\ events[p] = "unvisited"
    /\ events'[p] \notin {"unvisited", "walkError"}

\* The five reasons of the claim C1, read in the state before the file is handled.
C1_NoEntry(p) == \A i \in 1..Len(oldDB) : oldDB[i].SourcePath # p
C1_First(p) == oldDB[CHOOSE i \in 1..Len(oldDB) :
                        /\ oldDB[i].SourcePath = p
                        /\ \A j \in 1..(i - 1) : oldDB[j].SourcePath # p]
C1_Changed(p) ==
    \/ C1_NoEntry(p)
    \/ C1_First(p).Size # src[p].size
    \/ C1_First(p).ModTime # src[p].modTime
    \/ C1_First(p).Command # (IF isImage(p) THEN options.ffmpegImageCommand
                                            ELSE options.ffmpegAudioCommand)
    \/ P(p.stem, IF isImage(p) THEN options.targetImageExtension
                               ELSE options.targetAudioExtension) \notin target

\* C1: every walked file classified as audio or image is processed (its command is
\* run, or it is copied) if and only if the previous record set has no entry for it,
\* or the entry's size, modTime or command differs, or its target file is missing.
C1_ProcessedIffChanged ==
    [][\A p \in SourcePaths :
          (Visits(p) /\ Classified(p)) => ((events'[p] \in Processed) <=> C1_Changed(p))]_vars

\* C1, apart from the templates that tokenize to no argument (see C19): the decision
\* itself is the claim's.
C1_DecisionOnly ==
    [][\A p \in SourcePaths :
          (Visits(p) /\ Classified(p)) =>
              ((events'[p] \in Processed \cup {"emptyargv"}) <=> C1_Changed(p))]_vars

\* The source paths of the entries of a record set, in order.
SourcePathsOf(db) == [i \in 1..Len(db) |-> db[i].SourcePath]

\* Every target file a stored record set names is in the given target tree.
TargetsPresent(file, tree) ==
    \A i \in 1..Len(file.entries) : file.entries[i].targetPath \in tree

\* C2: a run that follows another run with no change to the source tree or the
\* configuration executes no command, performs no copy, and persists a record set
\* equal to the one the first run persisted.  Neither run is interrupted.
C2_SecondRunSkipsAll ==
    (run.repeat /\ pc # "idle" /\ run.prevExit # 130 /\ exitStatus # 130) =>
        /\ \A p \in SourcePaths : events[p] \notin Processed
        /\ (pc = "exited" => store = run.storeBefore)

\* C2 as amended: the same, for a second run that follows a run which ended with
\* status 0 and after which every target file its record set names exists; the
\* store is the same after a second run that was not interrupted.
C2_SecondRunSkipsAllAfterSuccess ==
    (/\ run.repeat
     /\ pc # "idle"
     /\ run.prevExit = 0
     /\ TargetsPresent(run.storeBefore, run.targetBefore)) =>
        /\ \A p \in SourcePaths : events[p] \notin Processed
        /\ (pc = "exited" /\ exitStatus # 130) =>
               (store.kind = "json" /\ store = run.storeBefore)

\* A second run after a successful one has ended and has found files up to date.
C2_Witness ==
    /\ run.repeat
    /\ run.prevExit = 0
    /\ TargetsPresent(run.storeBefore, run.targetBefore)
    /\ pc = "exited"
    /\ exitStatus = 0
    /\ Len(newDB) >= 2
    /\ \A i \in 1..Len(newDB) : events[newDB[i].SourcePath] = "uptodate"

\* The run has ended after its walk had begun.
EndedAfterWalk == pc = "exited" /\ runs > 0 /\ exitStatus \in {0, 1}

C4_DeletionReconciles ==
    /\ (pc \in {"walk", "delete", "exited"} /\ runs > 0) =>
            /\ deleted \cap expected = {}
            /\ run.targetBefore \ target = deleted
            /\ (~options.deleteRemovedFiles => deleted = {})
    /\ (EndedAfterWalk /\ exitStatus = 0 /\ options.deleteRemovedFiles
            /\ removeFailed = {}) =>
            /\ store.kind = "json"
            /\ target = {t \in run.targetAtSave : t \in expected}
            /\ deleted = {t \in run.targetAtSave : t \notin expected}

\* A pass has deleted the target of a source file that is gone and has kept the
\* target of one that is still there.
C4_Witness ==
    /\ EndedAfterWalk
    /\ exitStatus = 0
    /\ options.deleteRemovedFiles
    /\ removeFailed = {}
    /\ P("cover", "jpeg") \in deleted
    /\ P("song", "opus") \in target
    /\ P("song", "opus") \in expected

\* C5: when os.Remove fails on one orphaned target file, the orphaned files later
\* in the walk are still deleted: after the pass only the files whose removal
\* failed are left of the orphans.
C5_DeletionGoesOn ==
    (EndedAfterWalk /\ exitStatus = 0 /\ options.deleteRemovedFiles) =>
        \A t \in target \ expected : t \in removeFailed

\* C6: when a file's command or copy fails, the file gets no entry in the new
\* record set, the entries of the files skipped or processed before it stay (in
\* walk order), and the run ends with status 1.
C6_FailureKeepsEarlierEntries ==
    \A p \in SourcePaths :
        events[p] \in {"commandFailed", "copyFailed"} =>
            /\ pc = "exited"
            /\ exitStatus = 1
            /\ \A i \in 1..Len(newDB) : newDB[i].SourcePath # p
            /\ SourcePathsOf(newDB) = SelectSeq(SourceOrder, LAMBDA q : events[q] \in Recorded)
            /\ ((\E q \in SourcePaths : events[q] \in Recorded) => newDB # <<>>)

\* A command or copy has failed after an earlier file was processed.
C6_Witness ==
    /\ \E p \in SourcePaths : events[p] \in {"commandFailed", "copyFailed"}
    /\ \E q \in SourcePaths : events[q] \in {"command", "copy"}
    /\ Len(newDB) >= 1

\* C7: a file that needs processing is copied, with no process executed, when its
\* command template is empty, and is recorded with the empty command; with a
\* configured command the command is executed and nothing is copied.
C7_EmptyCommandCopies ==
    [][\A p \in SourcePaths :
          (Visits(p) /\ Classified(p) /\ C1_Changed(p)) =>
              IF ffmpegCmd(p) = <<>>
              THEN /\ events'[p] \in {"copy", "copyFailed"}
                   /\ (events'[p] = "copy" =>
                          newDB'[Len(newDB')] = [newEntry(p) EXCEPT !.Command = <<>>])
              ELSE events'[p] \in {"command", "commandFailed"}]_vars

\* The README's admission policy for the patterns given on the command line.
excludes == IF "exclude" \in extraFlags THEN {ExcludePattern} ELSE {}
includes == IF "include" \in extraFlags THEN {IncludePattern} ELSE {}
Admitted(p) ==
    \/ \E pattern \in includes : p \in pattern
    \/ ~\E pattern \in excludes : p \in pattern

\* C8: a source file matching an include pattern is admitted whatever it excludes;
\* otherwise one matching an exclude pattern is rejected, neither processed nor
\* recorded; otherwise it is admitted.  Read at the end of a run that met no error
\* in its walk.
C8_IncludeExclude ==
    (pc = "exited" /\ runs > 0 /\ exitStatus \in {0, 2}) =>
        \A p \in SourcePaths :
            (src[p].present /\ Classified(p)) =>
                IF Admitted(p)
                THEN events[p] \in Processed \cup {"uptodate", "emptyargv"}
                ELSE /\ events[p] = "unvisited"
                     /\ \A i \in 1..Len(newDB) : newDB[i].SourcePath # p

\* A token with both placeholders replaced in one pass, the inserted paths untouched.
RECURSIVE C9_Substituted(_, _, _)
C9_Substituted(token, inputPath, outputPath) ==
    IF token = <<>> THEN <<>>
    ELSE IF HasPrefix(token, INPUT)
    THEN inputPath \o C9_Substituted(SubSeq(token, Len(INPUT) + 1, Len(token)),
                                     inputPath, outputPath)
    ELSE IF HasPrefix(token, OUTPUT)
    THEN outputPath \o C9_Substituted(SubSeq(token, Len(OUTPUT) + 1, Len(token)),
                                      inputPath, outputPath)
    ELSE <<Head(token)>> \o C9_Substituted(Tail(token), inputPath, outputPath)

\* C9: each token of parseCommandTemplate is the token of splitCommand(template) at
\* the same place with every $INPUT replaced by the source path and every $OUTPUT by
\* the target path, the text of the inserted paths left as given.
C9_PlaceholdersSubstituted ==
    tok.stage = "parsed" =>
        /\ Len(tok.argv) = Len(tok.args)
        /\ \A i \in 1..Len(tok.args) :
               tok.argv[i] = C9_Substituted(tok.args[i], tok.inputPath, tok.outputPath)

\* Text without quotes, escapes or blanks, to stand between quotes.
PlainTexts == {<<"a">>, <<"a", "a">>, <<"i", "t">>, <<"s">>}
Quoted(text) == <<"'">> \o text \o <<"'">>

\* C10: two quoted regions with nothing between them are separate tokens ('it''s'
\* gives it and s); joined by an escaped character they are one token ('it'\''s'
\* gives it's).
C10_AdjacentQuotedSeparate ==
    tok.stage = "split" =>
        \A u \in PlainTexts, v \in PlainTexts :
            /\ (tok.template = Quoted(u) \o Quoted(v) => tok.args = <<u, v>>)
            /\ (tok.template = Quoted(u) \o <<"\\", "'">> \o Quoted(v) =>
                    tok.args = <<u \o <<"'">> \o v>>)

\* C10 as amended: two quoted regions with nothing between them are one token, the
\* concatenation of their texts ('it''s' gives its); joined by an escaped character
\* they are one token too, with that character between ('it'\''s' gives it's).
C10_AdjacentQuotedConcatenate ==
    tok.stage = "split" =>
        \A u \in PlainTexts, v \in PlainTexts :
            /\ (tok.template = Quoted(u) \o Quoted(v) => tok.args = <<u \o v>>)
            /\ (tok.template = Quoted(u) \o <<"\\", "'">> \o Quoted(v) =>
                    tok.args = <<u \o <<"'">> \o v>>)

\* splitCommand has been applied to 'it''s'.
C10_Witness ==
    /\ tok.stage = "split"
    /\ tok.template = ExampleItS
    /\ tok.args = <<<<"i", "t", "s">>>>

\* Two extensions that differ at most in the case of their letters.
C11_SameLetters(a, b) ==
    \/ a = b
    \/ <<a, b>> \in {<<"JPG", "jpg">>, <<"jpg", "JPG">>, <<"MP3", "mp3">>, <<"mp3", "MP3">>}

\* The extension of p is in the audio or the image extension list, case apart.
C11_Listed(p) ==
    \E e \in Range(options.sourceAudioExtensions) \cup Range(options.sourceImageExtensions) :
        C11_SameLetters(p.ext, e)

\* C11: a source file whose extension is, case apart, in neither extension list is
\* skipped entirely: its visit runs no command, copies nothing, creates no target
\* file and adds no entry, and the new record set never has an entry for it; a file
\* whose extension is in a list, in whatever case, is classified and not skipped so.
C11_UnlistedSkipped ==
    [][\A p \in SourcePaths :
          /\ Visits(p) =>
                IF C11_Listed(p)
                THEN events'[p] # "ignored"
                ELSE /\ events'[p] = "ignored"
                     /\ target' = target
                     /\ newDB' = newDB
                     /\ pc' = "walk"
          /\ ~C11_Listed(p) =>
                /\ events'[p] \notin Processed \cup Recorded
                /\ \A i \in 1..Len(newDB') : newDB'[i].SourcePath # p]_vars

\* A run has ended in which notes.txt was skipped and cover.JPG, whose extension is
\* in capitals, was classified and processed.
C11_Witness ==
    /\ pc = "exited"
    /\ exitStatus = 0
    /\ events[P("notes", "txt")] = "ignored"
    /\ events[P("cover", "JPG")] \in {"command", "copy"}
    /\ \E i \in 1..Len(newDB) : newDB[i].SourcePath = P("cover", "JPG")
    /\ \A i \in 1..Len(newDB) : newDB[i].SourcePath # P("notes", "txt")

\* Every source file of the tree has been visited by the walk of this run.
C12_WalkComplete ==
    /\ walkList = <<>>
    /\ \A p \in SourcePaths : src[p].present => events[p] \notin {"unvisited", "walkError"}

\* C12: during a run the store file changes only at the Persist step, after the walk
\* has visited every source file; a run that is interrupted or stops during the walk
\* (traversal error, per-file error) ends with the store as the previous run wrote it.
C12_StoreReflectsCompletedRuns ==
    [][/\ (pc \in {"walk", "delete"} /\ store' # store) =>
              (pc = "walk" /\ C12_WalkComplete)
       /\ (pc \in {"idle", "exited"} /\ pc' \in {"walk", "exited"}) => store' = store
       /\ (pc = "walk" /\ ~C12_WalkComplete /\ pc' = "exited") =>
              (store' = run.storeBefore /\ exitStatus' \in {1, 130})]_vars

\* A run after a run that wrote two entries has processed a file and then stopped
\* during its walk: the store is as the earlier run wrote it.
C12_Witness ==
    /\ pc = "exited"
    /\ exitStatus \in {1, 130}
    /\ walkList # <<>>
    /\ newDB # <<>>
    /\ \E p \in SourcePaths : events[p] \in {"command", "copy"}
    /\ run.storeBefore.kind = "json"
    /\ Len(run.storeBefore.entries) >= 2
    /\ store = run.storeBefore
    /\ Load(store) # newDB

\* C13: at every point of the walk the new record set holds, in walk order, exactly
\* one entry for each source file found up to date (skipped) or processed with
\* success so far and no entry for any other file, so that its sourcePath values are
\* pairwise distinct; each entry holds the file's current size and modTime and the
\* effective command of this run, also for a file that was skipped.
C13_OneEntryPerRecordedFile ==
    (pc \in {"walk", "delete", "exited"} /\ runs > 0) =>
        /\ SourcePathsOf(newDB) = SelectSeq(SourceOrder, LAMBDA p : events[p] \in Recorded)
        /\ \A i \in 1..Len(newDB), j \in 1..Len(newDB) :
               newDB[i].SourcePath = newDB[j].SourcePath => i = j
        /\ \A i \in 1..Len(newDB) :
               LET p == newDB[i].SourcePath
               IN  /\ newDB[i].Size = src[p].size
                   /\ newDB[i].ModTime = src[p].modTime
                   /\ newDB[i].Command = (IF C11_SameLetters(p.ext, "jpg")
                                          THEN options.ffmpegImageCommand
                                          ELSE options.ffmpegAudioCommand)

\* In a run with a command template a file was found up to date and recorded with
\* the template, after another file was processed and recorded.
C13_Witness ==
    /\ pc = "walk"
    /\ Len(newDB) >= 2
    /\ \E i \in 1..Len(newDB) :
           /\ events[newDB[i].SourcePath] = "uptodate"
           /\ newDB[i].Command = Transcode
    /\ \E i \in 1..Len(newDB) : events[newDB[i].SourcePath] \in {"command", "copy"}

\* C14: the argv that parseCommandTemplate gives has exactly as many elements as
\* splitCommand gives for the template alone, whatever blanks, quotes and
\* backslashes the substituted source and target paths hold.
C14_PathsNeverResplit ==
    tok.stage = "parsed" =>
        /\ Len(tok.argv) = Len(splitCommand(tok.template))
        /\ Len(tok.argv) = Len(tok.args)

\* A source path with a blank and a quote was substituted into a template of two
\* tokens, and the token that holds it is one element of argv.
C14_Witness ==
    /\ tok.stage = "parsed"
    /\ tok.template = Transcode
    /\ tok.inputPath = <<"i", " ", "'">>
    /\ tok.outputPath = <<"o", "\\", "\"">>
    /\ tok.argv = <<<<"f">>, <<"i", " ", "'">>, <<"o", "\\", "\"">>>>

\* Text as whitespace breaks it: the maximal runs of runes that are no whitespace.
C15_Blanks == {" ", "\t", "\n", "\r"}

RECURSIVE C15_DropBlanks(_)
C15_DropBlanks(s) ==
    IF s # <<>> /\ Head(s) \in C15_Blanks THEN C15_DropBlanks(Tail(s)) ELSE s

RECURSIVE C15_Word(_)
C15_Word(s) ==
    IF s = <<>> \/ Head(s) \in C15_Blanks THEN <<>> ELSE <<Head(s)>> \o C15_Word(Tail(s))

RECURSIVE C15_Fields(_)
C15_Fields(s) ==
    LET t == C15_DropBlanks(s)
        w == C15_Word(t)
    IN  IF t = <<>> THEN <<>> ELSE <<w>> \o C15_Fields(SubSeq(t, Len(w) + 1, Len(t)))

\* The tokens of a template of one quoted region: the region's text, joined with the
\* word glued to it on either side, between the words a blank apart from it.
C15_RegionTokens(before, w, after) ==
    LET glued == (IF before = <<"a">> THEN <<"a">> ELSE <<>>) \o w
                 \o (IF after = <<"a">> THEN <<"a">> ELSE <<>>)
    IN  (IF before = <<"a", " ">> THEN <<<<"a">>>> ELSE <<>>)
        \o (IF glued = <<>> THEN <<>> ELSE <<glued>>)
        \o (IF after = <<" ", "a">> THEN <<<<"a">>>> ELSE <<>>)

\* The template t is before, a region in quotes q, after; the region's text has
\* neither the quote q nor a backslash.
C15_RegionText(t, before, after) == SubSeq(t, Len(before) + 2, Len(t) - Len(after) - 1)
C15_IsRegion(t, before, q, after) ==
    /\ Len(t) >= Len(before) + Len(after) + 2
    /\ SubSeq(t, 1, Len(before)) = before
    /\ SubSeq(t, Len(t) - Len(after) + 1, Len(t)) = after
    /\ t[Len(before) + 1] = q
    /\ t[Len(t) - Len(after)] = q
    /\ Range(C15_RegionText(t, before, after)) \cap {q, "\\"} = {}

C16_Words == {<<>>, <<"a">>}
C16_Runes == {"a", " ", "\t", "\n", "\r", "'", "\"", "\\", "$"}

\* One token of the given text, or no token when the text is empty.
C16_Token(text) == IF text = <<>> THEN <<>> ELSE <<text>>

\* C16: a backslash, inside or outside a quoted region, is consumed and the rune
\* after it is appended literally to the current token (a backslash, a quote or
\* whitespace included) without opening or closing a region or ending the token; a
\* trailing backslash or an unterminated quoted region raises no error, and the text
\* accumulated so far is the last token.
C16_Escapes ==
    tok.stage = "split" =>
        /\ \A u \in C16_Words, v \in C16_Words, c \in C16_Runes :
               /\ (tok.template = u \o <<"\\", c>> \o v => tok.args = <<u \o <<c>> \o v>>)
               /\ \A q \in RegionQuotes :
                      tok.template = <<q>> \o u \o <<"\\", c>> \o v \o <<q>> =>
                          tok.args = <<u \o <<c>> \o v>>
        /\ \A u \in C16_Words :
               /\ (tok.template = u \o <<"\\">> => tok.args = C16_Token(u))
               /\ \A q \in RegionQuotes :
                      tok.template = <<q>> \o u \o <<"\\">> => tok.args = C16_Token(u)
        /\ \A q \in RegionQuotes :
               (/\ tok.template # <<>>
                /\ Head(tok.template) = q
                /\ Range(Tail(tok.template)) \cap {q, "\\"} = {}) =>
                   tok.args = C16_Token(Tail(tok.template))
        /\ LET st == splitLoop(splitInit, tok.template)
           IN  ~st.escape =>
                   /\ splitCommand(tok.template \o <<"\\">>) = tok.args
                   /\ \A c \in C16_Runes :
                          LET more == splitLoop(splitInit, tok.template \o <<"\\", c>>)
                          IN  /\ more.args = st.args
                              /\ more.current = Append(st.current, c)
                              /\ more.inQuote = st.inQuote
                              /\ ~more.escape

\* splitCommand has been applied to 'a\'a' and has given the one token a'a.
C16_Witness ==
    /\ tok.stage = "split"
    /\ tok.template = <<"'", "a", "\\", "'", "a", "'">>
    /\ tok.args = <<<<"a", "'", "a">>>>

\* C17: an argument that is explicitly quoted empty, a pair of quotes with nothing
\* inside standing alone between whitespace or the ends of the template, is kept as
\* an empty element of the result.
C17_QuotedEmptyKept ==
    tok.stage = "split" =>
        \A q \in RegionQuotes, before \in {<<>>, <<"a", " ">>}, after \in {<<>>, <<" ", "a">>} :
            tok.template = Region(before, q, <<>>, after) =>
                tok.args = (IF before = <<>> THEN <<>> ELSE <<<<"a">>>>)
                           \o << <<>> >>
                           \o (IF after = <<>> THEN <<>> ELSE <<<<"a">>>>)

\* C18: when the store file is missing, unreadable or cannot be decoded, Load gives
\* the empty record set and the run is not aborted, and in that run no classified
\* source file is skipped as up to date: every one is processed (or, with a template
\* that tokenizes to no argument, met by the branch of C19).
C18_StoreRecovery ==
    (runs > 0 /\ pc \in {"walk", "delete", "exited"} /\ exitStatus # 2
        /\ run.storeBefore.kind # "json") =>
        /\ oldDB = <<>>
        /\ \A p \in SourcePaths : events[p] # "uptodate"
        /\ (pc = "exited" /\ exitStatus = 0) =>
               \A p \in SourcePaths :
                   (src[p].present /\ Classified(p)) =>
                       events[p] \in Processed \cup {"emptyargv"}

\* C19: after a run that ends with status 0, every source file classified as audio
\* or image has an entry in the persisted record set, whatever the configuration, a
\* command template of whitespace only included.
C19_EveryClassifiedFileRecorded ==
    (pc = "exited" /\ runs > 0 /\ exitStatus = 0) =>
        /\ store.kind = "json"
        /\ \A p \in SourcePaths :
               (src[p].present /\ Classified(p)) =>
                   \E i \in 1..Len(store.entries) : store.entries[i].sourcePath = p

\* C20: within the new record set distinct source files have distinct targetPath
\* values, and no target file is written for two different source files in one run.
C20_TargetPathsDistinct ==
    /\ \A i \in 1..Len(newDB), j \in 1..Len(newDB) :
           newDB[i].TargetPath = newDB[j].TargetPath => i = j
    /\ \A p \in SourcePaths, q \in SourcePaths :
           (/\ events[p] \in {"command", "copy"}
            /\ events[q] \in {"command", "copy"}
            /\ P(p.stem, IF C11_SameLetters(p.ext, "jpg") THEN options.targetImageExtension
                                                         ELSE options.targetAudioExtension)
               = P(q.stem, IF C11_SameLetters(q.ext, "jpg") THEN options.targetImageExtension
                                                           ELSE options.targetAudioExtension))
               => p = q

\* C21: no target file is deleted before the walk of the source tree has finished
\* and the new record set has been saved; a run whose walk fails (traversal error or
\* per-file error) deletes no target file at all, also with delete-removed.
C21_DeleteOnlyAfterSave ==
    [][/\ (pc \in {"walk", "delete"} /\ (deleted' # deleted \/ ~(target \subseteq target'))) =>
              /\ pc = "delete"
              /\ C12_WalkComplete
              /\ store.kind = "json"
              /\ Load(store) = newDB
       /\ (pc = "walk" /\ pc' = "exited" /\ exitStatus' = 1) =>
              /\ deleted' = {}
              /\ run.targetBefore \subseteq target'
              /\ \E p \in SourcePaths :
                     events'[p] \in {"commandFailed", "copyFailed", "walkError"}]_vars

\* A run with delete-removed has failed in its walk after it processed a file: the
\* orphaned target file stray.txt is still there and nothing was deleted.
C21_Witness ==
    /\ pc = "exited"
    /\ exitStatus = 1
    /\ options.deleteRemovedFiles
    /\ newDB # <<>>
    /\ deleted = {}
    /\ P("stray", "txt") \in target
    /\ P("stray", "txt") \notin expected

====
